---- MODULE Spec2Model ----
(***************************************************************************)
(* A model of pychecker (src/pychecker/pychecker.py): the PyCheckDebugger  *)
(* session, its report formatting pipeline, the single-dispatch registry  *)
(* of argument_to_string, and install()/uninstall() of                     *)
(* src/pychecker/builtins.py.                                              *)
(*                                                                         *)
(* Python strings are sequences of one-character strings; NL is the only   *)
(* line-breaking character that occurs in the model.                       *)
(***************************************************************************)
EXTENDS Integers, Sequences, FiniteSets, TLC

\* ------------------------------------------------------------------------
\* Strings
\* ------------------------------------------------------------------------

NL == "\n"

SP == " "

None == "None"

\* c * n for a one-character string c
Rep(c, n) == [i \in 1..n |-> c]

\* ' ' * n
Spaces(n) == Rep(SP, n)

Min(S) == CHOOSE x \in S : \A y \in S : x <= y

Max(S) == CHOOSE x \in S : \A y \in S : x >= y

\* concatenation of a sequence of strings
RECURSIVE Concat(_)
Concat(ss) == IF ss = <<>> THEN <<>> ELSE Head(ss) \o Concat(Tail(ss))

\* sep.join(ss)
RECURSIVE Join(_, _)
Join(sep, ss) ==
    IF ss = <<>> THEN <<>>
    ELSE IF Len(ss) = 1 THEN ss[1]
    ELSE ss[1] \o sep \o Join(sep, Tail(ss))

\* index of the first NL of s, 0 when there is none
FirstNL(s) ==
    LET at == {i \in 1..Len(s) : s[i] = NL}
    IN  IF at = {} THEN 0 ELSE Min(at)

\* s.splitlines(True): the lines of s, each keeping its line end
RECURSIVE SplitLinesKeep(_)
SplitLinesKeep(s) ==
    IF s = <<>> THEN <<>>
    ELSE LET i == FirstNL(s)
         IN  IF i = 0 THEN <<s>>
             ELSE <<SubSeq(s, 1, i)>>
                  \o SplitLinesKeep(SubSeq(s, i + 1, Len(s)))

DropLineEnd(l) ==
    IF l # <<>> /\ l[Len(l)] = NL THEN SubSeq(l, 1, Len(l) - 1) ELSE l

\* s.splitlines()
SplitLines(s) ==
    LET ls == SplitLinesKeep(s)
    IN  [i \in 1..Len(ls) |-> DropLineEnd(ls[i])]

IsSpace(c) == c \in {SP, NL}

\* s.strip()
Strip(s) ==
    LET ink == {i \in 1..Len(s) : ~IsSpace(s[i])}
    IN  IF ink = {} THEN <<>> ELSE SubSeq(s, Min(ink), Max(ink))

\* number of leading spaces of a line
LeadingSpaces(l) ==
    Min({i \in 1..Len(l) : l[i] # SP} \cup {Len(l) + 1}) - 1

\* a line holding nothing but white space (its line end aside)
IsBlankLine(l) == \A i \in 1..Len(l) : IsSpace(l[i])

\* textwrap.dedent(s): white-space-only lines are emptied, and the margin all
\* other lines share is removed from each of them
Dedent(s) ==
    LET ls     == SplitLinesKeep(s)
        inked  == {i \in 1..Len(ls) : ~IsBlankLine(ls[i])}
        margin == IF inked = {} THEN 0
                  ELSE Min({LeadingSpaces(ls[i]) : i \in inked})
        cut(l) == IF IsBlankLine(l)
                  THEN (IF l # <<>> /\ l[Len(l)] = NL THEN <<NL>> ELSE <<>>)
                  ELSE SubSeq(l, margin + 1, Len(l))
    IN  Concat([i \in 1..Len(ls) |-> cut(ls[i])])

Digit(d) == CASE d = 0 -> "0" [] d = 1 -> "1" [] d = 2 -> "2" [] d = 3 -> "3"
              [] d = 4 -> "4" [] d = 5 -> "5" [] d = 6 -> "6" [] d = 7 -> "7"
              [] d = 8 -> "8" [] d = 9 -> "9"

\* '%s' % n for a natural number n
RECURSIVE IntToStr(_)
IntToStr(n) ==
    IF n < 10 THEN <<Digit(n)>> ELSE IntToStr(n \div 10) \o <<Digit(n % 10)>>

\* '%0wd' % n
RECURSIVE ZeroPad(_, _)
ZeroPad(n, w) ==
    IF w <= 0 THEN <<>> ELSE ZeroPad(n \div 10, w - 1) \o <<Digit(n % 10)>>

\* ------------------------------------------------------------------------
\* Module constants (pychecker.py 26-47, 209-211)
\* ------------------------------------------------------------------------

DEFAULT_PREFIX == <<"c", "h", "e", "c", "k", "|", " ">>

DEFAULT_LINE_WRAP_WIDTH == 70

DEFAULT_CONTEXT_DELIMITER == <<"-", " ">>

PAIR_DELIMITER == <<",", " ">>

\* NoAvailableSourceError.infoMessage
infoMessage ==
    <<"F", "a", "i", "l", "e", "d", " ", "t", "o", " ", "a", "c", "c", "e",
    "s", "s", " ", "t", "h", "e", " ", "u", "n", "d", "e", "r", "l", "y",
    "i", "n", "g", " ", "s", "o", "u", "r", "c", "e", " ", "c", "o", "d",
    "e", " ", "f", "o", "r", " ", "a", "n", "a", "l", "y", "s", "i", "s",
    ".", "I", "s", " ", "c", "h", "e", "c", "k", "(", ")", " ", "c", "a",
    "l", "l", "e", "d", " ", "i", "n", " ", "a", " ", "R", "E", "P", "L",
    " ", "(", "e", ".", "g", ".", " ", "f", "r", "o", "m", " ", "t", "h",
    "e", " ", "c", "o", "m", "m", "a", "n", "d", " ", "l", "i", "n", "e",
    ")", ",", "i", "n", " ", "a", " ", "f", "r", "o", "z", "e", "n", " ",
    "a", "p", "p", "l", "i", "c", "a", "t", "i", "o", "n", " ", "(", "e",
    ".", "g", ".", " ", "p", "a", "c", "k", "a", "g", "e", "d", " ", "w",
    "i", "t", "h", " ", "P", "y", "I", "n", "s", "t", "a", "l", "l", "e",
    "r", ")", ",", "o", "r", " ", "h", "a", "s", " ", "t", "h", "e", " ",
    "u", "n", "d", "e", "r", "l", "y", "i", "n", "g", " ", "s", "o", "u",
    "r", "c", "e", " ", "c", "o", "d", "e", " ", "c", "h", "a", "n", "g",
    "e", "d", " ", "a", "t", " ", "r", "u", "n", "t", "i", "m", "e", "?">>

ErrorTag == <<"E", "r", "r", "o", "r", ":", " ">>

\* ------------------------------------------------------------------------
\* Text layout (pychecker.py 136-165)
\* ------------------------------------------------------------------------

\* prefix_lines_after_first(prefix, string)
prefix_lines_after_first(prefix, string) ==
    LET lines == SplitLinesKeep(string)
    IN  Concat([i \in 1..Len(lines) |->
                  IF i = 1 THEN lines[i] ELSE prefix \o lines[i]])

\* indented_lines(prefix, string) raises IndexError on a string with no line
indented_lines_raises(string) == SplitLines(string) = <<>>

\* indented_lines(prefix, string), for a string with at least one line
indented_lines(prefix, string) ==
    LET lines == SplitLines(string)
    IN  [i \in 1..Len(lines) |->
           IF i = 1 THEN prefix \o lines[1]
           ELSE Spaces(Len(prefix)) \o lines[i]]

\* value[0] + value[-1] in ["''", '""']
looks_like_a_string(value) ==
    /\ value[1] = value[Len(value)]
    /\ value[1] \in {"'", "\""}

\* format_pair(prefix, arg, value) raises IndexError: arg has no line
\* (arg_lines[-1]) or value is empty (value[0])
format_pair_raises(arg, value) ==
    indented_lines_raises(arg) \/ value = <<>>

\* a slip in format_pair: the value starts on a line of its own, below
\* the expression
format_pair_value_below(prefix, arg, value) ==
    LET arg_lines   == indented_lines(prefix, arg)
        value_lines == indented_lines(Spaces(Len(prefix)), value)
    IN  Join(<<NL>>,
             SubSeq(arg_lines, 1, Len(arg_lines) - 1)
             \o <<arg_lines[Len(arg_lines)] \o <<":">>>>
             \o value_lines)

\* a slip in format_pair: a value that looks like a string is laid out as
\* any other (its later lines are not shifted by the one column)
format_pair_no_shift(prefix, arg, value) ==
    LET arg_lines    == indented_lines(prefix, arg)
        value_prefix == arg_lines[Len(arg_lines)] \o <<":", " ">>
        value_lines  == indented_lines(value_prefix, value)
    IN  Join(<<NL>>, SubSeq(arg_lines, 1, Len(arg_lines) - 1) \o value_lines)

\* format_pair(prefix, arg, value), where it does not raise
format_pair(prefix, arg, value) ==
    LET arg_lines    == indented_lines(prefix, arg)
        value_prefix == arg_lines[Len(arg_lines)] \o <<":", " ">>
        shifted      == IF looks_like_a_string(value)
                        THEN prefix_lines_after_first(<<SP>>, value)
                        ELSE value
        value_lines  == indented_lines(value_prefix, shifted)
        lines        == SubSeq(arg_lines, 1, Len(arg_lines) - 1) \o value_lines
    IN  Join(<<NL>>, lines)

\* ------------------------------------------------------------------------
\* Literal classification (pychecker.py 105-113)
\* ------------------------------------------------------------------------

Digits == {"0", "1", "2", "3", "4", "5", "6", "7", "8", "9"}

IsIntLiteral(s) == s # <<>> /\ \A i \in 1..Len(s) : s[i] \in Digits

IsStrLiteral(s) ==
    /\ Len(s) >= 2
    /\ s[1] \in {"'", "\""}
    /\ s[Len(s)] = s[1]
    /\ \A i \in 2..(Len(s) - 1) : s[i] \notin {s[1], "\\", NL}

IsKeywordLiteral(s) ==
    s \in {<<"N", "o", "n", "e">>, <<"T", "r", "u", "e">>,
           <<"F", "a", "l", "s", "e">>}

\* is_literal(string): ast.literal_eval accepts the text.  The expression
\* texts of the model are names, calls and starred names (all rejected:
\* they hold a Name or Call node) and the atoms below.
is_literal(string) ==
    LET s == Strip(string)
    IN  IsIntLiteral(s) \/ IsStrLiteral(s) \/ IsKeywordLiteral(s)

\* ------------------------------------------------------------------------
\* Python values: a value is its runtime type and the text pprint.pformat
\* gives for it (pychecker.py 29)
\* ------------------------------------------------------------------------

Types == {"object", "int", "bool", "str"}

\* cls.__mro__
Mro(cls) ==
    CASE cls = "object" -> <<"object">>
      [] cls = "bool"   -> <<"bool", "int", "object">>
      [] OTHER          -> <<cls, "object">>

V_one == [type |-> "int", pformat |-> <<"1">>]

V_true == [type |-> "bool", pformat |-> <<"T", "r", "u", "e">>]

\* 'l1\nl2': pformat escapes the line break as a backslash and an n
V_multiline == [type |-> "str", pformat |-> <<"'", "l", "1", "\\", "n", "l", "2", "'">>]

\* '*' * int(lineWrapWidth / 4)
V_stars ==
    [type |-> "str",
     pformat |-> <<"'">> \o Rep("*", DEFAULT_LINE_WRAP_WIDTH \div 4) \o <<"'">>]

Values == {V_one, V_true, V_multiline, V_stars}

\* a string whose report line "check| w: '***...'" is exactly as long as
\* the wrap width, and one a character longer
V_exact ==
    [type |-> "str",
     pformat |-> <<"'">>
                 \o Rep("*", DEFAULT_LINE_WRAP_WIDTH - Len(DEFAULT_PREFIX) - 5)
                 \o <<"'">>]

V_over ==
    [type |-> "str",
     pformat |-> <<"'">>
                 \o Rep("*", DEFAULT_LINE_WRAP_WIDTH - Len(DEFAULT_PREFIX) - 4)
                 \o <<"'">>]

\* an instance of a class whose __repr__ gives two lines: pformat returns
\* the repr unchanged, line break included
V_point ==
    [type |-> "Point",
     pformat |-> <<"x", "=", "1", NL, "y", "=", "2">>]

\* string.replace('\\n', '\n'): every backslash followed by an n becomes
\* one line break (two such pairs cannot overlap)
UnescapeNewlines(s) ==
    LET hits == {i \in 1..(Len(s) - 1) : s[i] = "\\" /\ s[i + 1] = "n"}
        kept == SelectSeq([i \in 1..Len(s) |-> i],
                          LAMBDA i : (i - 1) \notin hits)
    IN  [j \in 1..Len(kept) |->
            IF kept[j] \in hits THEN NL ELSE s[kept[j]]]

\* the body of argument_to_string: the registry's default entry
argument_to_string_default(obj) == UnescapeNewlines(obj.pformat)

\* ------------------------------------------------------------------------
\* Call sites: what executing.Source and the caller's frame give for one
\* call expression.  A node is an argument expression of the call: its
\* source text, the column of its first token, and the values it passes
\* (several for a starred expression).
\* ------------------------------------------------------------------------

MaxUnpack == 2

Node(text, col, vals) == [text |-> text, col |-> col, vals |-> vals]

UnpackedValues == <<V_one, V_true>>

\* the first k values of the unpacked list xs
Unpacked(k) == [i \in 1..k |-> UnpackedValues[((i - 1) % Len(UnpackedValues)) + 1]]

File_abs == <<"/", "w", "/", "t", ".", "p", "y">>

File_rel == <<"t", ".", "p", "y">>

File_eval == <<"<", "s", "t", "r", "i", "n", "g", ">">>

Fn_module == <<"<", "m", "o", "d", "u", "l", "e", ">">>

Fn_foo == <<"f", "o", "o">>

Cwd == <<"/", "w">>

\* check()
Site_noargs ==
    [source |-> TRUE, filename |-> File_rel, lineno |-> 3,
     function |-> Fn_module, nodes |-> <<>>]

\* check(a)
Site_name ==
    [source |-> TRUE, filename |-> File_abs, lineno |-> 12,
     function |-> Fn_foo, nodes |-> <<Node(<<"a">>, 6, <<V_one>>)>>]

\* check(1, t) with t = True
Site_literal ==
    [source |-> TRUE, filename |-> File_abs, lineno |-> 14,
     function |-> Fn_foo,
     nodes |-> <<Node(<<"1">>, 6, <<V_one>>), Node(<<"t">>, 9, <<V_true>>)>>]

\* check(1, p) with p an instance whose repr has two lines
Site_literal_multiline ==
    [source |-> TRUE, filename |-> File_rel, lineno |-> 16,
     function |-> Fn_module,
     nodes |-> <<Node(<<"1">>, 6, <<V_one>>), Node(<<"p">>, 9, <<V_point>>)>>]

\* check(1)
Site_literal_only ==
    [source |-> TRUE, filename |-> File_rel, lineno |-> 17,
     function |-> Fn_module, nodes |-> <<Node(<<"1">>, 6, <<V_one>>)>>]

\* check(w) with w a string that fills the line up to the wrap width
Site_width_exact ==
    [source |-> TRUE, filename |-> File_rel, lineno |-> 18,
     function |-> Fn_module, nodes |-> <<Node(<<"w">>, 6, <<V_exact>>)>>]

\* check(w) with w a string one character longer
Site_width_over ==
    [source |-> TRUE, filename |-> File_rel, lineno |-> 19,
     function |-> Fn_module, nodes |-> <<Node(<<"w">>, 6, <<V_over>>)>>]

\* check(s) with s = 'l1\nl2'
Site_multiline_value ==
    [source |-> TRUE, filename |-> File_rel, lineno |-> 20,
     function |-> Fn_module, nodes |-> <<Node(<<"s">>, 6, <<V_multiline>>)>>]

\* check(v1, v2, v3, v4)
Site_wrap ==
    [source |-> TRUE, filename |-> File_rel, lineno |-> 31,
     function |-> Fn_module,
     nodes |-> <<Node(<<"v", "1">>, 6, <<V_stars>>),
                 Node(<<"v", "2">>, 10, <<V_stars>>),
                 Node(<<"v", "3">>, 14, <<V_stars>>),
                 Node(<<"v", "4">>, 18, <<V_stars>>)>>]

\* check(f(a,
\*         b))
Site_multiline_arg ==
    [source |-> TRUE, filename |-> File_abs, lineno |-> 40,
     function |-> Fn_foo,
     nodes |-> <<Node(<<"f", "(", "a", ",", NL, " ", " ", " ", " ", " ", " ", " ", " ", "b", ")">>, 6, <<V_true>>)>>]

\* check(*xs) with xs holding k values
Site_star(k) ==
    [source |-> TRUE, filename |-> File_abs, lineno |-> 50,
     function |-> Fn_foo,
     nodes |-> <<Node(<<"*", "x", "s">>, 6, Unpacked(k))>>]

\* check(a, *xs) with xs holding k values
Site_name_star(k) ==
    [source |-> TRUE, filename |-> File_abs, lineno |-> 51,
     function |-> Fn_foo,
     nodes |-> <<Node(<<"a">>, 6, <<V_one>>),
                 Node(<<"*", "x", "s">>, 9, Unpacked(k))>>]

\* eval('check()') and eval('check(a)'): no source behind the frame
Site_eval_noargs ==
    [source |-> FALSE, filename |-> File_eval, lineno |-> 1,
     function |-> Fn_module, nodes |-> <<>>]

Site_eval_name ==
    [source |-> FALSE, filename |-> File_eval, lineno |-> 1,
     function |-> Fn_module, nodes |-> <<Node(<<"a">>, 6, <<V_one>>)>>]

CallSites ==
    {Site_noargs, Site_name, Site_literal, Site_literal_multiline,
     Site_literal_only, Site_width_exact, Site_width_over,
     Site_multiline_value, Site_wrap, Site_multiline_arg, Site_eval_noargs,
     Site_eval_name}
    \cup {Site_star(k) : k \in 0..MaxUnpack}
    \cup {Site_name_star(k) : k \in 0..MaxUnpack}

\* *args of the call: the values of all argument expressions, in order
ArgsOf(site) == Concat([i \in 1..Len(site.nodes) |-> site.nodes[i].vals])

\* datetime.now()
Clocks ==
    {[hour |-> 9, minute |-> 5, second |-> 7, microsecond |-> 1999],
     [hour |-> 23, minute |-> 59, second |-> 59, microsecond |-> 999999]}

\* ------------------------------------------------------------------------
\* State
\* ------------------------------------------------------------------------

VARIABLES
    enabled,                 \* self.enabled
    prefix,                  \* self.prefix
    output_function,         \* self.output_function
    arg_to_string_function,  \* self.arg_to_string_function
    include_context,         \* self.include_context
    context_abs_path,        \* self.context_abs_path
    pairDelimiter,           \* PyCheckDebugger._pairDelimiter
    lineWrapWidth,           \* PyCheckDebugger.lineWrapWidth
    context_delimiter,       \* PyCheckDebugger.context_delimiter
    registry,                \* registry of argument_to_string
    dispatch_cache,          \* dispatch cache of argument_to_string
    switched,                \* history: the most recent enable()/disable()
    builtins,                \* the attributes of the builtins module
    settled,                 \* history: per name, the most recent install()
                             \* or uninstall() that succeeded
    last                     \* outcome of the most recent operation

config == <<prefix, output_function, arg_to_string_function, include_context,
            context_abs_path>>

layout == <<pairDelimiter, lineWrapWidth, context_delimiter>>

dispatcher == <<registry, dispatch_cache>>

installation == <<builtins, settled>>

vars == <<enabled, config, layout, dispatcher, switched, installation, last>>

\* Python's True, False and None as values of a configuration field
PyTrue == "True"

PyFalse == "False"

\* bool(x) for a flag value
Truthy(x) == x = PyTrue

\* a prefix is a string or a zero-argument function returning one
StrPrefix(text) == [callable |-> FALSE, text |-> text, returns |-> <<>>]

FnPrefix(text) == [callable |-> TRUE, text |-> <<>>, returns |-> text]

Prefixes ==
    {StrPrefix(DEFAULT_PREFIX), StrPrefix(<<>>),
     FnPrefix(<<"l", "o", "l", "s", "u", "p", " ">>)}

OutputFunctions == {"colorized_stderr_print", "append_to"}

\* argument_to_string (the dispatching converter), a function returning a
\* fixed text, and a function that raises
Converters == {"argument_to_string", "hello", "broken"}

Flags == {PyTrue, PyFalse, None}

\* overrides a caller may register: fixed texts, one of them empty
Overrides == {"override_a", "override_b"}

\* types register() and unregister() are called with
RegTypes == {"object", "int", "bool"}

\* names install() and uninstall() are called with: the default, another
\* free name, and the name of a builtin function
Names == {"check", "c", "len"}

\* the builtins module before anything is installed: a name is bound to an
\* object or is no attribute of the module
InitialBuiltins == [name \in {"len"} |-> "builtin_len"]

\* call_or_value(obj)
call_or_value(obj) == IF obj.callable THEN obj.returns ELSE obj.text

\* ------------------------------------------------------------------------
\* Value stringifier: functools.singledispatch as single_dispatch wraps it
\* (pychecker.py 168-199)
\* ------------------------------------------------------------------------

\* _find_impl(cls, registry): the entry of the first class of the MRO that
\* has one, None when no class has
RECURSIVE FindImpl(_, _)
FindImpl(mro, reg) ==
    IF mro = <<>> THEN None
    ELSE IF Head(mro) \in DOMAIN reg THEN reg[Head(mro)]
    ELSE FindImpl(Tail(mro), reg)

\* dispatch(cls): the cached implementation, else the one looked up
dispatch(cls, reg, cache) ==
    IF cls \in DOMAIN cache THEN cache[cls]
    ELSE IF cls \in DOMAIN reg THEN reg[cls]
    ELSE FindImpl(Mro(cls), reg)

\* calling an implementation on a value
ApplyImpl(impl, obj) ==
    CASE impl = "argument_to_string_default" ->
            [exc |-> "none", text |-> argument_to_string_default(obj)]
      [] impl = "override_a" ->
            [exc |-> "none", text |-> <<"A", "!">>]
      [] impl = "override_b" ->
            [exc |-> "none", text |-> <<>>]
      [] OTHER ->  \* None is not callable
            [exc |-> "TypeError", text |-> <<>>]

\* argument_to_string(obj): dispatch on the class of obj, remember the
\* decision in the cache, call the implementation
argument_to_string(obj, reg, cache) ==
    LET impl == dispatch(obj.type, reg, cache)
        r    == ApplyImpl(impl, obj)
    IN  [exc |-> r.exc, text |-> r.text,
         cache |-> (obj.type :> impl) @@ cache]

\* self.arg_to_string_function(val)
ArgToString(fn, obj, reg, cache) ==
    CASE fn = "argument_to_string" -> argument_to_string(obj, reg, cache)
      [] fn = "hello" ->
            [exc |-> "none", text |-> <<"z", "w", "e", "i">>, cache |-> cache]
      [] OTHER ->
            [exc |-> "ValueError", text |-> <<>>, cache |-> cache]

\* [self.arg_to_string_function(val) for val in vals], left to right; the
\* first exception ends it
RECURSIVE ConvertAll(_, _, _, _, _)
ConvertAll(fn, vals, reg, cache, acc) ==
    IF vals = <<>> THEN [exc |-> "none", texts |-> acc, cache |-> cache]
    ELSE LET r == ArgToString(fn, Head(vals), reg, cache)
         IN  IF r.exc # "none"
             THEN [exc |-> r.exc, texts |-> acc, cache |-> r.cache]
             ELSE ConvertAll(fn, Tail(vals), reg, r.cache, Append(acc, r.text))

\* ------------------------------------------------------------------------
\* Call-site resolution (pychecker.py 55-64, 316-336)
\* ------------------------------------------------------------------------

\* Source.get_text_with_indentation(node)
get_text_with_indentation(node) ==
    LET text     == node.text
        indented == IF \E i \in 1..Len(text) : text[i] = NL
                    THEN Dedent(Spaces(node.col) \o text)
                    ELSE text
    IN  Strip(indented)

\* index of the last "/" of p, 0 when there is none
LastSlash(p) == Max({i \in 1..Len(p) : p[i] = "/"} \cup {0})

\* os.path.basename(p)
basename(p) == SubSeq(p, LastSlash(p) + 1, Len(p))

\* os.path.realpath(p), no symbolic link on the way
realpath(p) == IF p # <<>> /\ p[1] = "/" THEN p ELSE Cwd \o <<"/">> \o p

\* self._get_context(call_frame, call_node)
get_context(site, abs_path) ==
    [filepath |-> IF Truthy(abs_path) THEN realpath(site.filename)
                  ELSE basename(site.filename),
     line_number |-> site.lineno,
     parent_function |-> site.function]

\* self._format_context(call_frame, call_node)
format_context(site, abs_path) ==
    LET c  == get_context(site, abs_path)
        fn == IF c.parent_function # Fn_module
              THEN c.parent_function \o <<"(", ")">>
              ELSE c.parent_function
    IN  c.filepath \o <<":">> \o IntToStr(c.line_number) \o <<" ", "i", "n", " ">> \o fn

\* self._format_time() at the clock reading now
format_time(now) ==
    LET stamp == ZeroPad(now.hour, 2) \o <<":">> \o ZeroPad(now.minute, 2)
                 \o <<":">> \o ZeroPad(now.second, 2) \o <<".">>
                 \o ZeroPad(now.microsecond, 6)
    IN  <<" ", "a", "t", " ">> \o SubSeq(stamp, 1, Len(stamp) - 3)

\* ------------------------------------------------------------------------
\* Report builder (pychecker.py 249-314)
\* ------------------------------------------------------------------------

\* list(zip(sanitized_arg_strs, args))
Zip(strs, args) ==
    [i \in 1..(IF Len(strs) < Len(args) THEN Len(strs) ELSE Len(args)) |->
        [arg |-> strs[i], val |-> args[i]]]

Raised(exc, pairs, cache) ==
    [exc |-> exc, out |-> <<>>, pairs |-> pairs, layout |-> "none",
     cache |-> cache]

\* a slip in the wrapped layout without context: the prefix is put before
\* every line of the block instead of before the first one only
wrapped_output_prefix_every_line(pfx, context, pairs, texts) ==
    IF context # <<>>
    THEN Join(<<NL>>,
              <<pfx \o context>> \o
              [i \in 1..Len(pairs) |->
                 format_pair(Spaces(Len(pfx)), pairs[i].arg, texts[i])])
    ELSE LET lines == SplitLines(
                        Join(<<NL>>,
                             [i \in 1..Len(pairs) |->
                                format_pair(<<>>, pairs[i].arg, texts[i])]))
         IN  Join(<<NL>>, [j \in 1..Len(lines) |-> pfx \o lines[j]])

\* the report of the wrapped layout (lines 299-310, 314)
wrapped_output(pfx, context, pairs, texts) ==
    IF context # <<>>
    THEN Join(<<NL>>,
              <<pfx \o context>> \o
              [i \in 1..Len(pairs) |->
                 format_pair(Spaces(Len(pfx)), pairs[i].arg, texts[i])])
    ELSE Join(<<NL>>,
              indented_lines(pfx,
                Join(<<NL>>,
                     [i \in 1..Len(pairs) |->
                        format_pair(<<>>, pairs[i].arg, texts[i])])))

\* a slip in the layout decision: a first line as long as the wrap width
\* is wrapped (>= in place of >)
layout_pairs_wrap_at_width(pfx, context, pairs, texts, cache) ==
    LET n == Len(pairs)
        pair_strs ==
            [i \in 1..n |->
               IF is_literal(pairs[i].arg) THEN texts[i]
               ELSE pairs[i].arg \o <<":", " ">> \o texts[i]]
        all_args_on_one_line == Join(pairDelimiter, pair_strs)
        multiline_args == Len(SplitLines(all_args_on_one_line)) > 1
        cdelim == IF context # <<>> THEN context_delimiter ELSE <<>>
        all_pairs == pfx \o context \o cdelim \o all_args_on_one_line
        all_pairs_lines == SplitLines(all_pairs)
    IN  IF all_pairs_lines = <<>>   \* all_pairs.splitlines()[0]
        THEN Raised("IndexError", pairs, cache)
        ELSE IF multiline_args \/ Len(all_pairs_lines[1]) >= lineWrapWidth
        THEN IF \E i \in 1..n : format_pair_raises(pairs[i].arg, texts[i])
             THEN Raised("IndexError", pairs, cache)
             ELSE [exc |-> "none",
                   out |-> wrapped_output(pfx, context, pairs, texts),
                   pairs |-> pairs,
                   layout |-> IF context # <<>> THEN "wrapped_context"
                              ELSE "wrapped",
                   cache |-> cache]
        ELSE [exc |-> "none", out |-> Join(<<NL>>, <<all_pairs>>),
              pairs |-> pairs, layout |-> "single", cache |-> cache]

\* the layout decision and the report, the values converted to texts
\* (lines 290-314)
layout_pairs(pfx, context, pairs, texts, cache) ==
    LET n == Len(pairs)
        pair_strs ==
            [i \in 1..n |->
               IF is_literal(pairs[i].arg) THEN texts[i]
               ELSE pairs[i].arg \o <<":", " ">> \o texts[i]]
        all_args_on_one_line == Join(pairDelimiter, pair_strs)
        multiline_args == Len(SplitLines(all_args_on_one_line)) > 1
        cdelim == IF context # <<>> THEN context_delimiter ELSE <<>>
        all_pairs == pfx \o context \o cdelim \o all_args_on_one_line
        all_pairs_lines == SplitLines(all_pairs)
    IN  IF all_pairs_lines = <<>>   \* all_pairs.splitlines()[0]
        THEN Raised("IndexError", pairs, cache)
        ELSE IF multiline_args \/ Len(all_pairs_lines[1]) > lineWrapWidth
        THEN IF \E i \in 1..n : format_pair_raises(pairs[i].arg, texts[i])
             THEN Raised("IndexError", pairs, cache)
             ELSE [exc |-> "none",
                   out |-> wrapped_output(pfx, context, pairs, texts),
                   pairs |-> pairs,
                   layout |-> IF context # <<>> THEN "wrapped_context"
                              ELSE "wrapped",
                   cache |-> cache]
        ELSE [exc |-> "none", out |-> Join(<<NL>>, <<all_pairs>>),
              pairs |-> pairs, layout |-> "single", cache |-> cache]

\* self._construct_argument_output(prefix, context, pairs)
construct_argument_output(pfx, context, pairs) ==
    LET conv == ConvertAll(arg_to_string_function,
                           [i \in 1..Len(pairs) |-> pairs[i].val],
                           registry, dispatch_cache, <<>>)
    IN  IF conv.exc # "none" THEN Raised(conv.exc, pairs, conv.cache)
        ELSE layout_pairs(pfx, context, pairs, conv.texts, conv.cache)

\* self._format_args(call_frame, call_node, prefix, context, args)
format_args(site, pfx, context, args) ==
    LET sanitized_arg_strs ==
            [i \in 1..Len(site.nodes) |->
                get_text_with_indentation(site.nodes[i])]
    IN  construct_argument_output(pfx, context, Zip(sanitized_arg_strs, args))

\* a slip in _format: the time is appended on the path with arguments too
format_timestamp_everywhere(site, args, now) ==
    LET pfx == call_or_value(prefix)
    IN  IF ~site.source
        THEN Raised("NoAvailableSourceError", <<>>, dispatch_cache)
        ELSE LET context == format_context(site, context_abs_path)
                 r == format_args(site, pfx,
                                  IF ~Truthy(include_context) THEN <<>>
                                  ELSE context,
                                  args)
             IN  IF args = <<>>
                 THEN [exc |-> "none",
                       out |-> pfx \o context \o format_time(now),
                       pairs |-> <<>>, layout |-> "time",
                       cache |-> dispatch_cache]
                 ELSE IF r.exc # "none" THEN r
                 ELSE [r EXCEPT !.out = @ \o format_time(now)]

\* self._format(call_frame, *args) with the clock reading now
format_(site, args, now) ==
    LET pfx == call_or_value(prefix)
    IN  IF ~site.source
        THEN Raised("NoAvailableSourceError", <<>>, dispatch_cache)
        ELSE LET context == format_context(site, context_abs_path)
             IN  IF args = <<>>
                 THEN [exc |-> "none",
                       out |-> pfx \o context \o format_time(now),
                       pairs |-> <<>>, layout |-> "time",
                       cache |-> dispatch_cache]
                 ELSE format_args(site, pfx,
                                  IF ~Truthy(include_context) THEN <<>>
                                  ELSE context,
                                  args)

\* ------------------------------------------------------------------------
\* Outcome of an operation, kept for the properties
\* ------------------------------------------------------------------------

NoSite ==
    [source |-> FALSE, filename |-> <<>>, lineno |-> 0, function |-> <<>>,
     nodes |-> <<>>]

NoClock == [hour |-> 0, minute |-> 0, second |-> 0, microsecond |-> 0]

ConfigFields ==
    {"prefix", "output_function", "arg_to_string_function", "include_context",
     "context_abs_path"}

\* keyword arguments of configure_output: the fields supplied and their
\* values (a field left _absent carries a filler that is never read)
Kwargs(given, p, o, a, i, c) ==
    [given |-> given, prefix |-> p, output_function |-> o,
     arg_to_string_function |-> a, include_context |-> i,
     context_abs_path |-> c]

NoKwargs ==
    Kwargs({}, StrPrefix(<<>>), "colorized_stderr_print",
           "argument_to_string", PyFalse, PyFalse)

RetNone == [kind |-> "None", vals |-> <<>>]

Outcome(op, status, exc) ==
    [op |-> op, status |-> status, exc |-> exc, site |-> NoSite,
     args |-> <<>>, now |-> NoClock, ret |-> RetNone, emitted |-> <<>>,
     report |-> <<>>, pairs |-> <<>>, layout |-> "none", cls |-> "none",
     impl |-> "none", name |-> "none", kwargs |-> NoKwargs]

\* ------------------------------------------------------------------------
\* PyCheckDebugger (pychecker.py 202-369)
\* ------------------------------------------------------------------------

\* PyCheckDebugger(prefix, output_function, arg_to_string_function,
\* include_context, context_abs_path): __init__, the class attributes, and
\* the registry as single_dispatch leaves it
Construct(p, o, a, i, c) ==
    /\ enabled = TRUE
    /\ prefix = p
    /\ include_context = i
    /\ output_function = o
    /\ arg_to_string_function = a
    /\ context_abs_path = c
    /\ pairDelimiter = PAIR_DELIMITER
    /\ lineWrapWidth = DEFAULT_LINE_WRAP_WIDTH
    /\ context_delimiter = DEFAULT_CONTEXT_DELIMITER
    /\ registry = [cls \in {"object"} |-> "argument_to_string_default"]
    /\ dispatch_cache = <<>>
    /\ switched = "none"
    /\ builtins = InitialBuiltins
    /\ settled = [name \in Names |-> "none"]
    /\ last = Outcome("init", "returned", "none")

\* check = PyCheckDebugger(): the defaults of __init__
Init ==
    Construct(StrPrefix(DEFAULT_PREFIX), "colorized_stderr_print",
              "argument_to_string", PyFalse, PyFalse)

\* a slip in the pass-through: the argument tuple whatever its length
Passthrough_always_tuple(args) == [kind |-> "tuple", vals |-> args]

\* the pass-through value of __call__ (lines 233-239)
Passthrough(args) ==
    IF args = <<>> THEN RetNone
    ELSE IF Len(args) = 1 THEN [kind |-> "value", vals |-> <<args[1]>>]
    ELSE [kind |-> "tuple", vals |-> args]

\* the clock readings a call from the site can see: only the zero-argument
\* path reads the clock
ClockReads(site) ==
    IF ArgsOf(site) = <<>> /\ site.source THEN Clocks ELSE {NoClock}

\* a slip in __call__: NoAvailableSourceError is not caught
call_report_uncaught(site, args, now) == format_(site, args, now)

\* the report __call__ hands to the sink (lines 226-231): the one of
\* _format, or the fallback when _format raises NoAvailableSourceError
call_report(site, args, now) ==
    LET r == format_(site, args, now)
    IN  IF r.exc = "NoAvailableSourceError"
        THEN [r EXCEPT !.exc = "none",
                       !.out = call_or_value(prefix) \o ErrorTag
                               \o infoMessage]
        ELSE r

\* check(*args) from the site
Call(site, now) ==
    LET args == ArgsOf(site)
        base == [Outcome("call", "returned", "none") EXCEPT
                   !.site = site, !.args = args, !.now = now]
    IN  /\ IF enabled
           THEN \E r \in {call_report(site, args, now)} :
                    IF r.exc # "none"
                    THEN /\ last' = [base EXCEPT
                               !.status = "raised", !.exc = r.exc,
                               !.ret = [kind |-> "raised", vals |-> <<>>],
                               !.pairs = r.pairs]
                         /\ dispatch_cache' = r.cache
                    ELSE /\ last' = [base EXCEPT
                               !.ret = Passthrough(args),
                               !.emitted = <<[sink |-> output_function,
                                              text |-> r.out]>>,
                               !.report = r.out, !.pairs = r.pairs,
                               !.layout = r.layout]
                         /\ dispatch_cache' = r.cache
           ELSE /\ last' = [base EXCEPT !.ret = Passthrough(args)]
                /\ dispatch_cache' = dispatch_cache
        /\ UNCHANGED <<enabled, config, layout, registry, switched,
                       installation>>

\* check.format(*args) from the site
Format(site, now) ==
    LET args == ArgsOf(site)
        base == [Outcome("format", "returned", "none") EXCEPT
                   !.site = site, !.args = args, !.now = now]
    IN  \E r \in {format_(site, args, now)} :
        /\ IF r.exc # "none"
           THEN last' = [base EXCEPT
                           !.status = "raised", !.exc = r.exc,
                           !.ret = [kind |-> "raised", vals |-> <<>>],
                           !.pairs = r.pairs]
           ELSE last' = [base EXCEPT
                           !.ret = [kind |-> "str", vals |-> <<>>],
                           !.report = r.out, !.pairs = r.pairs,
                           !.layout = r.layout]
        /\ dispatch_cache' = r.cache
        /\ UNCHANGED <<enabled, config, layout, registry, switched,
                       installation>>

\* check.enable()
Enable ==
    /\ enabled' = TRUE
    /\ switched' = "enable"
    /\ last' = Outcome("enable", "returned", "none")
    /\ UNCHANGED <<config, layout, dispatcher, installation>>

\* a slip in disable(): the flag is written to another attribute
Disable_wrong_attribute ==
    /\ switched' = "disable"
    /\ last' = Outcome("disable", "returned", "none")
    /\ UNCHANGED <<enabled, config, layout, dispatcher, installation>>

\* check.disable()
Disable ==
    /\ enabled' = FALSE
    /\ switched' = "disable"
    /\ last' = Outcome("disable", "returned", "none")
    /\ UNCHANGED <<config, layout, dispatcher, installation>>

\* a slip in the guard: the parameters are compared with None instead of
\* _absent, and a parameter left out is not None
no_parameter_provided_none(kw) == FALSE

\* no_parameter_provided (lines 356-357)
no_parameter_provided(kw) == kw.given = {}

\* a slip in the tests of lines 360-369: "if <field>:" instead of
\* "if <field> is not _absent:"
is_not_absent_truthy(kw, field) ==
    /\ field \in kw.given
    /\ CASE field = "prefix" -> kw.prefix.callable \/ kw.prefix.text # <<>>
         [] field = "include_context" -> Truthy(kw.include_context)
         [] field = "context_abs_path" -> Truthy(kw.context_abs_path)
         [] OTHER -> TRUE

\* <field> is not _absent (lines 360-369)
is_not_absent(kw, field) == field \in kw.given

\* check.configure_output(**kw)
ConfigureOutput(kw) ==
    /\ IF no_parameter_provided(kw)
       THEN /\ last' = [Outcome("configure_output", "raised", "TypeError")
                          EXCEPT !.kwargs = kw,
                                 !.ret = [kind |-> "raised", vals |-> <<>>]]
            /\ UNCHANGED config
       ELSE /\ last' = [Outcome("configure_output", "returned", "none")
                          EXCEPT !.kwargs = kw]
            /\ prefix' = IF is_not_absent(kw, "prefix")
                         THEN kw.prefix ELSE prefix
            /\ output_function' = IF is_not_absent(kw, "output_function")
                                  THEN kw.output_function
                                  ELSE output_function
            /\ arg_to_string_function' =
                   IF is_not_absent(kw, "arg_to_string_function")
                   THEN kw.arg_to_string_function
                   ELSE arg_to_string_function
            /\ include_context' = IF is_not_absent(kw, "include_context")
                                  THEN kw.include_context
                                  ELSE include_context
            /\ context_abs_path' = IF is_not_absent(kw, "context_abs_path")
                                   THEN kw.context_abs_path
                                   ELSE context_abs_path
    /\ UNCHANGED <<enabled, layout, dispatcher, switched, installation>>

\* at most this many fields are supplied in one configure_output call
MaxSupplied == 2

\* the keyword-argument sets configure_output is called with
KwargsSpace ==
    {Kwargs(g, p, o, a, i, c) :
        g \in {s \in SUBSET ConfigFields : Cardinality(s) <= MaxSupplied},
        p \in Prefixes, o \in OutputFunctions, a \in Converters,
        i \in Flags, c \in Flags}

\* a filler in every field that is not supplied
Normal(kw) ==
    /\ "prefix" \notin kw.given => kw.prefix = NoKwargs.prefix
    /\ "output_function" \notin kw.given =>
           kw.output_function = NoKwargs.output_function
    /\ "arg_to_string_function" \notin kw.given =>
           kw.arg_to_string_function = NoKwargs.arg_to_string_function
    /\ "include_context" \notin kw.given =>
           kw.include_context = NoKwargs.include_context
    /\ "context_abs_path" \notin kw.given =>
           kw.context_abs_path = NoKwargs.context_abs_path

KwargsCalls == {kw \in KwargsSpace : Normal(kw)}

\* argument_to_string.register(cls, func)
Register(cls, func) ==
    /\ registry' = (cls :> func) @@ registry
    /\ dispatch_cache' = <<>>
    /\ last' = [Outcome("register", "returned", "none") EXCEPT
                  !.cls = cls, !.impl = func]
    /\ UNCHANGED <<enabled, config, layout, switched, installation>>

\* a slip in unregister: registry.pop(cls, None) in place of del
Unregister_pop(cls) ==
    /\ registry' = [k \in DOMAIN registry \ {cls} |-> registry[k]]
    /\ dispatch_cache' = <<>>
    /\ last' = [Outcome("unregister", "returned", "none") EXCEPT
                  !.cls = cls,
                  !.impl = IF cls \in DOMAIN registry THEN registry[cls]
                           ELSE "none"]
    /\ UNCHANGED <<enabled, config, layout, switched, installation>>

\* argument_to_string.unregister(cls): del registry[cls] raises KeyError
\* for a class that has no entry, before the cache is cleared
Unregister(cls) ==
    /\ IF cls \notin DOMAIN registry
       THEN /\ last' = [Outcome("unregister", "raised", "KeyError") EXCEPT
                          !.cls = cls,
                          !.ret = [kind |-> "raised", vals |-> <<>>]]
            /\ UNCHANGED dispatcher
       ELSE /\ registry' = [k \in DOMAIN registry \ {cls} |-> registry[k]]
            /\ dispatch_cache' = <<>>
            /\ last' = [Outcome("unregister", "returned", "none") EXCEPT
                          !.cls = cls, !.impl = registry[cls]]
    /\ UNCHANGED <<enabled, config, layout, switched, installation>>

\* argument_to_string(obj), called directly
ArgumentToString(obj) ==
    \E r \in {argument_to_string(obj, registry, dispatch_cache)} :
        /\ last' = [Outcome("argument_to_string",
                            IF r.exc = "none" THEN "returned" ELSE "raised",
                            r.exc) EXCEPT
                      !.args = <<obj>>, !.report = r.text,
                      !.ret = [kind |-> IF r.exc = "none" THEN "str"
                                        ELSE "raised",
                               vals |-> <<>>]]
        /\ dispatch_cache' = r.cache
        /\ UNCHANGED <<enabled, config, layout, registry, switched,
                       installation>>

\* ------------------------------------------------------------------------
\* Specifications
\* ------------------------------------------------------------------------

\* Session control: the default session, switched and reconfigured, and
\* called from sites with and without source
SessionSites == {Site_noargs, Site_name, Site_eval_noargs, Site_eval_name}

Next ==
    \/ \E site \in SessionSites : \E now \in ClockReads(site) : Call(site, now)
    \/ \E site \in SessionSites : \E now \in ClockReads(site) : Format(site, now)
    \/ Enable
    \/ Disable
    \/ \E kw \in KwargsCalls : ConfigureOutput(kw)

Spec == Init /\ [][Next]_vars

\* Formatting pipeline: a session constructed with any parameters, called
\* from every site, enabled and disabled
FormatInit ==
    \E p \in Prefixes, a \in Converters, i \in Flags, c \in {PyTrue, PyFalse} :
        Construct(p, "colorized_stderr_print", a, i, c)

FormatNext ==
    \/ \E site \in CallSites : \E now \in ClockReads(site) : Call(site, now)
    \/ \E site \in CallSites : \E now \in ClockReads(site) : Format(site, now)
    \/ Enable
    \/ Disable

FormatSpec == FormatInit /\ [][FormatNext]_vars

\* Dispatch registry: the default session, overrides registered and
\* unregistered, the converter called directly and through the session
RegistrySites == {Site_name, Site_literal}

RegistryNext ==
    \/ \E cls \in RegTypes, func \in Overrides : Register(cls, func)
    \/ \E cls \in Types : Unregister(cls)
    \/ \E obj \in Values : ArgumentToString(obj)
    \/ \E site \in RegistrySites : Call(site, NoClock)
    \/ \E site \in RegistrySites : Format(site, NoClock)

RegistrySpec == Init /\ [][RegistryNext]_vars

\* ------------------------------------------------------------------------
\* install() and uninstall() (builtins.py 16-21)
\* ------------------------------------------------------------------------

\* pychecker.check, the object install() binds a name to
EntryPoint == "pychecker.check"

\* a slip in install: a name already bound keeps its binding (setdefault)
Install_keep_bound(name) ==
    /\ builtins' = IF name \in DOMAIN builtins THEN builtins
                   ELSE (name :> EntryPoint) @@ builtins
    /\ settled' = [settled EXCEPT ![name] = "install"]
    /\ last' = [Outcome("install", "returned", "none") EXCEPT !.name = name]
    /\ UNCHANGED <<enabled, config, layout, dispatcher, switched>>

\* install(name): setattr(builtins, name, pychecker.check)
Install(name) ==
    /\ builtins' = (name :> EntryPoint) @@ builtins
    /\ settled' = [settled EXCEPT ![name] = "install"]
    /\ last' = [Outcome("install", "returned", "none") EXCEPT !.name = name]
    /\ UNCHANGED <<enabled, config, layout, dispatcher, switched>>

\* uninstall(name): delattr(builtins, name) raises AttributeError for a
\* name that is no attribute of the module
Uninstall(name) ==
    /\ IF name \notin DOMAIN builtins
       THEN /\ last' = [Outcome("uninstall", "raised", "AttributeError")
                          EXCEPT !.name = name,
                                 !.ret = [kind |-> "raised", vals |-> <<>>]]
            /\ UNCHANGED installation
       ELSE /\ builtins' = [k \in DOMAIN builtins \ {name} |-> builtins[k]]
            /\ settled' = [settled EXCEPT ![name] = "uninstall"]
            /\ last' = [Outcome("uninstall", "returned", "none")
                          EXCEPT !.name = name]
    /\ UNCHANGED <<enabled, config, layout, dispatcher, switched>>

\* a module that imports nothing evaluates name(a): the call of the entry
\* point when the name is bound to it, NameError when the name is bound
\* nowhere, and what the builtin does with an int otherwise (len(1) raises
\* TypeError)
Run(name) ==
    IF name \notin DOMAIN builtins
    THEN /\ last' = [Outcome("run", "raised", "NameError") EXCEPT
                       !.name = name,
                       !.ret = [kind |-> "raised", vals |-> <<>>]]
         /\ UNCHANGED <<enabled, config, layout, dispatcher, switched,
                        installation>>
    ELSE IF builtins[name] = EntryPoint
    THEN Call(Site_name, NoClock)
    ELSE /\ last' = [Outcome("run", "raised", "TypeError") EXCEPT
                       !.name = name,
                       !.ret = [kind |-> "raised", vals |-> <<>>]]
         /\ UNCHANGED <<enabled, config, layout, dispatcher, switched,
                        installation>>

InstallNext ==
    \/ \E name \in Names : Install(name)
    \/ \E name \in Names : Uninstall(name)
    \/ \E name \in Names : Run(name)
    \/ Enable
    \/ Disable

InstallSpec == Init /\ [][InstallNext]_vars

\* ------------------------------------------------------------------------
\* Properties
\* ------------------------------------------------------------------------

\* the pass-through rule: None for no argument, the argument for one, the
\* tuple of the arguments in call order for more
PassThroughRule(args, ret) ==
    /\ Len(args) = 0 => ret = [kind |-> "None", vals |-> <<>>]
    /\ Len(args) = 1 => ret = [kind |-> "value", vals |-> <<args[1]>>]
    /\ Len(args) >= 2 => ret = [kind |-> "tuple", vals |-> args]

\* C1: every call that returns, enabled or disabled, returns None for zero
\* arguments, the argument for one, and the tuple of the arguments in call
\* order for two or more; a disabled call always returns.
C1_ReturnValue ==
    last.op = "call" =>
        /\ ~enabled => last.status = "returned"
        /\ last.status = "returned" =>
               /\ last.args = ArgsOf(last.site)
               /\ PassThroughRule(last.args, last.ret)

\* a disabled call with several arguments has returned their tuple
C1_Witness ==
    /\ last.op = "call" /\ ~enabled /\ last.status = "returned"
    /\ Len(last.args) >= 2 /\ last.ret.kind = "tuple"

\* C2: a call that returns has called the configured sink exactly once if
\* the most recent enable()/disable() was enable() or there was none, and
\* not at all if it was disable(), whatever was reconfigured in between.
C2_SinkOnceIffEnabled ==
    (last.op = "call" /\ last.status = "returned") =>
        IF switched # "disable"
        THEN Len(last.emitted) = 1 /\ last.emitted[1].sink = output_function
        ELSE last.emitted = <<>>

\* a call after disable(), enable() and a change of sink reached the new sink
C2_Witness ==
    /\ last.op = "call" /\ last.status = "returned"
    /\ switched = "enable" /\ output_function = "append_to"
    /\ Len(last.emitted) = 1 /\ last.emitted[1].sink = "append_to"

\* C3: an enabled call from a site without source returns; the sink gets
\* prefix + "Error: " + infoMessage, no pair is built, and the arguments
\* are returned by the pass-through rule.
C3_NoSourceFallback ==
    (last.op = "call" /\ enabled /\ ~last.site.source) =>
        /\ last.status = "returned"
        /\ last.emitted =
               <<[sink |-> output_function,
                  text |-> call_or_value(prefix) \o ErrorTag \o infoMessage]>>
        /\ last.pairs = <<>>
        /\ PassThroughRule(last.args, last.ret)

\* an enabled call with an argument, a prefix function and no source
C3_Witness ==
    /\ last.op = "call" /\ enabled /\ ~last.site.source
    /\ Len(last.args) = 1 /\ prefix.callable
    /\ last.status = "returned" /\ Len(last.emitted) = 1

\* C4: format() returns the report the call from the same site would hand
\* to the sink (same clock reading), also at a site without source, and
\* calls no sink.
C4_FormatIsCallReport ==
    last.op = "format" =>
        LET r == call_report(last.site, last.args, last.now)
        IN  r.exc = "none" =>
                /\ last.status = "returned"
                /\ last.report = r.out
                /\ last.emitted = <<>>

\* C5: configure_output() with no field supplied raises TypeError and
\* leaves every configuration field and the enabled flag as they were.
C5_ConfigureNothingFails ==
    [][(last'.op = "configure_output" /\ last'.kwargs.given = {}) =>
          /\ last'.status = "raised"
          /\ last'.exc = "TypeError"
          /\ UNCHANGED <<enabled, config, layout>>]_vars

\* the failed call left a reconfigured, disabled session as it was
C5_Witness ==
    /\ last.op = "configure_output" /\ last.kwargs.given = {}
    /\ last.status = "raised"
    /\ ~enabled /\ prefix = StrPrefix(<<>>) /\ include_context = PyTrue

\* the value a configuration field has after configure_output(**kw)
FieldAfter(kw, field, old, new) == IF field \in kw.given THEN new ELSE old

\* C6: configure_output with some fields supplied sets each of them to the
\* value supplied (None, False and the empty string included) and leaves
\* the other fields, the enabled flag, the pair delimiter, the wrap width
\* and the context delimiter alone; enable() and disable() change the
\* enabled flag only.
C6_ConfigureFrame ==
    [][/\ (last'.op = "configure_output" /\ last'.kwargs.given # {}) =>
            LET kw == last'.kwargs
            IN  /\ last'.status = "returned"
                /\ prefix' = FieldAfter(kw, "prefix", prefix, kw.prefix)
                /\ output_function' =
                       FieldAfter(kw, "output_function", output_function,
                                  kw.output_function)
                /\ arg_to_string_function' =
                       FieldAfter(kw, "arg_to_string_function",
                                  arg_to_string_function,
                                  kw.arg_to_string_function)
                /\ include_context' =
                       FieldAfter(kw, "include_context", include_context,
                                  kw.include_context)
                /\ context_abs_path' =
                       FieldAfter(kw, "context_abs_path", context_abs_path,
                                  kw.context_abs_path)
                /\ UNCHANGED <<enabled, layout>>
       /\ last'.op = "enable" => (enabled' /\ UNCHANGED <<config, layout>>)
       /\ last'.op = "disable" => (~enabled' /\ UNCHANGED <<config, layout>>)
      ]_vars

\* an empty prefix and include_context = None were supplied together to a
\* disabled session, and are now its values
C6_Witness ==
    /\ last.op = "configure_output" /\ last.status = "returned"
    /\ last.kwargs.given = {"prefix", "include_context"}
    /\ last.kwargs.prefix = StrPrefix(<<>>) /\ prefix = StrPrefix(<<>>)
    /\ last.kwargs.include_context = None /\ include_context = None
    /\ ~enabled /\ output_function = "append_to"

\* C10: a report with one or more arguments built from a site with source
\* holds as many expression-text/value pairs as argument values were
\* passed, also when an argument expression is unpacked into several.
C10_PairsMatchArguments ==
    (/\ last.op \in {"call", "format"}
     /\ last.op = "call" => enabled
     /\ last.site.source
     /\ Len(last.args) >= 1) =>
        Len(last.pairs) = Len(last.args)

\* the pairs match wherever every argument expression passes one value
PairsMatchPlainArguments ==
    (/\ last.op \in {"call", "format"}
     /\ last.op = "call" => enabled
     /\ last.site.source
     /\ Len(last.args) >= 1
     /\ \A i \in 1..Len(last.site.nodes) : Len(last.site.nodes[i].vals) = 1) =>
        /\ Len(last.pairs) = Len(last.args)
        /\ \A i \in 1..Len(last.pairs) : last.pairs[i].val = last.args[i]

\* format() agrees with the call wherever the site has source
FormatIsCallReportWithSource ==
    (last.op = "format" /\ last.site.source) =>
        LET r == call_report(last.site, last.args, last.now)
        IN  /\ last.emitted = <<>>
            /\ last.exc = r.exc
            /\ r.exc = "none" =>
                   (last.status = "returned" /\ last.report = r.out)

\* the classes of the registry that hold an override
Overridden == {cls \in DOMAIN registry : registry[cls] \in Overrides}

\* what the default converter gives for a value
DefaultOutput(obj) ==
    [exc |-> "none", text |-> argument_to_string_default(obj)]

\* what argument_to_string gives for a value in the current state
ConverterOutput(obj) ==
    LET r == argument_to_string(obj, registry, dispatch_cache)
    IN  [exc |-> r.exc, text |-> r.text]

\* the values that are instances of a class
InstancesOf(cls) ==
    {obj \in Values : \E i \in 1..Len(Mro(obj.type)) : Mro(obj.type)[i] = cls}

\* C7: once unregister(T) has removed an override registered for T, every
\* value of type T that no other override covers is converted as by the
\* default converter; while an override is registered for T, the values
\* of type T are converted by it, and right after register(T, f) by f.
C7_RegisterUnregisterRoundTrip ==
    /\ (/\ last.op = "unregister" /\ last.status = "returned"
        /\ last.impl \in Overrides) =>
           \A obj \in InstancesOf(last.cls) :
               (\A i \in 1..Len(Mro(obj.type)) :
                    Mro(obj.type)[i] \notin Overridden) =>
                   ConverterOutput(obj) = DefaultOutput(obj)
    /\ \A obj \in Values :
           obj.type \in Overridden =>
               ConverterOutput(obj).text = ApplyImpl(registry[obj.type], obj).text
    /\ last.op = "register" =>
           \A obj \in Values :
               obj.type = last.cls =>
                   ConverterOutput(obj).text = ApplyImpl(last.impl, obj).text

\* the round trip holds for every class but the root the default is keyed on
RoundTripBelowRoot ==
    (/\ last.op = "unregister" /\ last.status = "returned"
     /\ last.impl \in Overrides /\ last.cls # "object"
     /\ "object" \in DOMAIN registry) =>
        \A obj \in InstancesOf(last.cls) :
            (\A i \in 1..Len(Mro(obj.type)) :
                 Mro(obj.type)[i] \notin Overridden) =>
                ConverterOutput(obj) = DefaultOutput(obj)

\* C8: the registry holds an entry for the root class in every reachable
\* state, and the converter gives a string for every value.
C8_DefaultEntryAlwaysPresent ==
    /\ "object" \in DOMAIN registry
    /\ \A obj \in Values : ConverterOutput(obj).exc = "none"

\* C9: unregister(T) for a class with no entry raises KeyError (a
\* LookupError) and leaves the registry and what every class dispatches to
\* unchanged; unregister(T) for a class with an entry returns and removes it.
C9_UnregisterAbsentFails ==
    [][last'.op = "unregister" =>
          IF last'.cls \notin DOMAIN registry
          THEN /\ last'.status = "raised"
               /\ last'.exc = "KeyError"
               /\ registry' = registry
               /\ \A cls \in Types :
                      dispatch(cls, registry', dispatch_cache')
                          = dispatch(cls, registry, dispatch_cache)
          ELSE /\ last'.status = "returned"
               /\ last'.cls \notin DOMAIN registry'
      ]_vars

\* unregister(int) failed while bool held an override and the cache was
\* filled; both are as before
C9_Witness ==
    /\ last.op = "unregister" /\ last.status = "raised"
    /\ last.exc = "KeyError" /\ last.cls = "int"
    /\ "bool" \in Overridden
    /\ dispatch_cache # <<>>

\* C11: a call never raises because of the converter: whatever the
\* converter does with a value (raise, or give a text that cannot be laid
\* out), the call returns its arguments by the pass-through rule and, when
\* enabled, hands one report to the sink.
C11_ConverterErrorsSwallowed ==
    (last.op = "call" /\ last.site.source /\ last.args # <<>>) =>
        /\ last.status = "returned"
        /\ last.ret = Passthrough(last.args)
        /\ enabled => Len(last.emitted) = 1

\* with a converter that gives a text for every value and no override
\* registered, every call returns
CallReturnsWithTotalConverter ==
    (/\ last.op = "call"
     /\ arg_to_string_function \in {"argument_to_string", "hello"}) =>
        last.status = "returned"

\* the value texts of the pairs of the most recent report, as the converter
\* configured gives them
TextsOf(pairs) ==
    ConvertAll(arg_to_string_function,
               [i \in 1..Len(pairs) |-> pairs[i].val],
               registry, dispatch_cache, <<>>).texts

\* the most recent operation built a report from one or more pairs
BuiltReport ==
    /\ last.op \in {"call", "format"}
    /\ last.status = "returned"
    /\ last.layout \in {"single", "wrapped", "wrapped_context"}

\* the context part of the most recent report
ContextOf(site) ==
    IF Truthy(include_context) THEN format_context(site, context_abs_path)
    ELSE <<>>

\* one pair as the single-line layout shows it: the value text alone for a
\* literal, "<exprText>: <valueText>" otherwise
RenderedPair(arg, value) ==
    IF is_literal(arg) THEN value ELSE arg \o <<":", " ">> \o value

\* one pair as a wrapped layout shows it, laid out after the block prefix:
\* the lines of the value text alone for a literal, the lines of
\* "<exprText>: <valueText>" otherwise
RenderedBlock(bp, arg, value) ==
    IF is_literal(arg)
    THEN LET lines == SplitLines(value)
         IN  [j \in 1..Len(lines) |->
                IF j = 1 THEN bp \o lines[1]
                ELSE Spaces(Len(bp)) \o lines[j]]
    ELSE SplitLines(format_pair(bp, arg, value))

\* the first line a wrapped layout gives to pair i is the i-th block start
RECURSIVE BlockStart(_, _, _, _)
BlockStart(bp, pairs, texts, i) ==
    IF i = 1 THEN 1
    ELSE BlockStart(bp, pairs, texts, i - 1)
         + Len(SplitLines(format_pair(bp, pairs[i - 1].arg, texts[i - 1])))

\* C12: in every report with one or more arguments a literal argument is
\* shown as its value text alone and a non-literal one as "<exprText>:
\* <valueText>": in the single-line layout the report is the rendered pairs
\* joined after prefix and context; in a wrapped layout the first line of
\* each pair's block is the first line of its rendering.
C12_LiteralElision ==
    BuiltReport =>
        LET pfx   == call_or_value(prefix)
            ctx   == ContextOf(last.site)
            pairs == last.pairs
            texts == TextsOf(pairs)
            lines == SplitLines(last.report)
        IN  IF last.layout = "single"
            THEN last.report =
                   pfx \o ctx
                   \o (IF ctx # <<>> THEN context_delimiter ELSE <<>>)
                   \o Join(pairDelimiter,
                           [i \in 1..Len(pairs) |->
                              RenderedPair(pairs[i].arg, texts[i])])
            ELSE \A i \in 1..Len(pairs) :
                   LET body == IF last.layout = "wrapped_context"
                               THEN Tail(lines)
                               ELSE [j \in 1..Len(lines) |->
                                       SubSeq(lines[j], Len(pfx) + 1,
                                              Len(lines[j]))]
                       bp   == IF last.layout = "wrapped_context"
                               THEN Spaces(Len(pfx)) ELSE <<>>
                       at   == BlockStart(bp, pairs, texts, i)
                   IN  /\ at <= Len(body)
                       /\ body[at] = RenderedBlock(bp, pairs[i].arg, texts[i])[1]

\* the elision holds in every single-line report, and in every wrapped
\* report none of whose expressions is a literal
LiteralElisionWhereNotWrappedLiteral ==
    (/\ BuiltReport
     /\ \/ last.layout = "single"
        \/ \A i \in 1..Len(last.pairs) : ~is_literal(last.pairs[i].arg)) =>
        C12_LiteralElision

\* the report shows the pairs it was built from one after the other, in
\* the order of the pairs: joined on the pair delimiter after prefix and
\* context in the single-line layout, block after block in a wrapped one
PairsShownInOrder ==
    LET pfx   == call_or_value(prefix)
        ctx   == ContextOf(last.site)
        pairs == last.pairs
        texts == TextsOf(pairs)
        lines == SplitLines(last.report)
    IN  CASE last.layout = "single" ->
               last.report =
                   pfx \o ctx
                   \o (IF ctx # <<>> THEN context_delimiter ELSE <<>>)
                   \o Join(pairDelimiter,
                           [i \in 1..Len(pairs) |->
                              RenderedPair(pairs[i].arg, texts[i])])
          [] last.layout = "wrapped_context" ->
               /\ lines[1] = pfx \o ctx
               /\ Tail(lines) =
                    Concat([i \in 1..Len(pairs) |->
                              SplitLines(format_pair(Spaces(Len(pfx)),
                                                     pairs[i].arg, texts[i]))])
          [] OTHER ->
               /\ SubSeq(lines[1], 1, Len(pfx)) = pfx
               /\ [j \in 1..Len(lines) |->
                     SubSeq(lines[j], Len(pfx) + 1, Len(lines[j]))] =
                    Concat([i \in 1..Len(pairs) |->
                              SplitLines(format_pair(<<>>, pairs[i].arg,
                                                     texts[i]))])

\* C13: in every report with one or more arguments each argument is shown
\* exactly once and in argument order (the i-th pair shown holds the i-th
\* argument, and there are as many pairs as arguments), in all three
\* layouts; the single-line report is prefix + context (+ context
\* delimiter) + the rendered pairs joined on the pair delimiter.
C13_PairsInArgumentOrder ==
    BuiltReport =>
        /\ Len(last.pairs) = Len(last.args)
        /\ \A i \in 1..Len(last.pairs) : last.pairs[i].val = last.args[i]
        /\ PairsShownInOrder

\* the pairs that were built are shown once each and in order in every
\* layout, and they hold the leading arguments in order
BuiltPairsInOrder ==
    BuiltReport =>
        /\ Len(last.pairs) <= Len(last.args)
        /\ \A i \in 1..Len(last.pairs) : last.pairs[i].val = last.args[i]
        /\ PairsShownInOrder

\* C14: in the wrapped layout without context the report has as many lines
\* as the pair blocks laid out with an empty prefix and joined by line
\* breaks; its first line is the prefix followed by the first of these
\* lines, and every later line is len(prefix) spaces followed by the
\* corresponding line.
C14_WrappedWithoutContext ==
    (BuiltReport /\ last.layout = "wrapped") =>
        LET pfx    == call_or_value(prefix)
            pairs  == last.pairs
            texts  == TextsOf(pairs)
            blines == SplitLines(
                        Join(<<NL>>,
                             [i \in 1..Len(pairs) |->
                                format_pair(<<>>, pairs[i].arg, texts[i])]))
            rlines == SplitLines(last.report)
        IN  /\ Len(rlines) = Len(blines)
            /\ rlines[1] = pfx \o blines[1]
            /\ \A j \in 2..Len(rlines) :
                   rlines[j] = Spaces(Len(pfx)) \o blines[j]

\* a call with the default prefix gave a wrapped report of four lines or
\* more without context
C14_Witness ==
    /\ BuiltReport /\ last.op = "call" /\ last.layout = "wrapped"
    /\ call_or_value(prefix) = DEFAULT_PREFIX
    /\ Len(SplitLines(last.report)) >= 4
    /\ Len(last.pairs) >= 2

\* the most recent report was built without context for exactly one
\* argument whose expression text and value text are one physical line each
OneLineArgument ==
    /\ BuiltReport
    /\ ~Truthy(include_context)
    /\ Len(last.args) = 1 /\ Len(last.pairs) = 1
    /\ Len(SplitLines(last.pairs[1].arg)) = 1
    /\ \A i \in 1..Len(last.pairs[1].arg) : last.pairs[1].arg[i] # NL
    /\ Len(SplitLines(TextsOf(last.pairs)[1])) = 1
    /\ \A i \in 1..Len(TextsOf(last.pairs)[1]) : TextsOf(last.pairs)[1][i] # NL

\* the one line "<prefix><exprText>: <valueText>"
ExprValueLine ==
    call_or_value(prefix) \o last.pairs[1].arg \o <<":", " ">>
    \o TextsOf(last.pairs)[1]

\* C15 as stated: without context, one argument whose expression text and
\* value text are one physical line each gives a report of exactly one
\* line, prefix + "<exprText>: <valueText>", however long that line is.
C15_SingleArgumentOneLine_AsStated ==
    OneLineArgument => last.report = ExprValueLine

\* C15: without context, one argument whose expression text is not a
\* literal and whose expression text and value text are one physical line
\* each gives a report of exactly one line, prefix + "<exprText>:
\* <valueText>", also when that line is longer than the wrap width.
C15_SingleArgumentOneLine ==
    (OneLineArgument /\ ~is_literal(last.pairs[1].arg)) =>
        /\ last.report = ExprValueLine
        /\ Len(SplitLines(last.report)) = 1

\* a one-argument report longer than the wrap width, built by the wrapped
\* layout, on one line
C15_Witness ==
    /\ OneLineArgument /\ ~is_literal(last.pairs[1].arg)
    /\ last.op = "call" /\ last.layout = "wrapped"
    /\ Len(last.report) > lineWrapWidth
    /\ Len(SplitLines(last.report)) = 1

\* the report the most recent operation would give if it were made again
\* now, from the same site with the same arguments, the clock reading now
ReportAgain(now) ==
    IF last.op = "format" THEN format_(last.site, last.args, now)
    ELSE call_report(last.site, last.args, now)

\* the most recent operation produced a report
ProducedReport ==
    /\ last.op \in {"call", "format"}
    /\ last.status = "returned"
    /\ last.op = "call" => last.emitted # <<>>

\* a text without its last n characters
DropLast(s, n) == SubSeq(s, 1, Len(s) - n)

\* C16: once an invocation with one or more arguments has produced a
\* report, the same invocation made again under the same configuration and
\* registry produces the same report text whatever the clock reads; on
\* the zero-argument path the two reports are equal up to their timestamps.
C16_FormatIdempotent ==
    ProducedReport =>
        \A now \in Clocks \cup {NoClock} :
            LET r == ReportAgain(now)
            IN  /\ r.exc = "none"
                /\ IF last.args # <<>> \/ ~last.site.source
                   THEN r.out = last.report
                   ELSE /\ DropLast(r.out, Len(format_time(now)))
                             = DropLast(last.report,
                                        Len(format_time(last.now)))
                        /\ r.layout = "time"

\* a wrapped report of several arguments was formatted, and the dispatch
\* cache the next formatting meets is filled
C16_Witness ==
    /\ ProducedReport /\ last.op = "format"
    /\ Len(last.args) >= 2 /\ last.layout = "wrapped_context"
    /\ dispatch_cache # <<>>

\* two readings of the clock give zero-argument reports that differ
TimestampDiffers ==
    /\ ProducedReport /\ last.args = <<>> /\ last.site.source
    /\ \E now \in Clocks : ReportAgain(now).out # last.report

\* C17: in every state a name is bound to the entry point in the builtins
\* module exactly when the most recent install() or uninstall() of that
\* name that succeeded was install(); install(name) returns and leaves the
\* name bound to the entry point, bound before or not; uninstall(name) of a
\* name that is not bound raises AttributeError and leaves the module as
\* it was, and uninstall(name) of a bound name returns and unbinds it.
C17_InstallUninstall ==
    /\ [](\A name \in Names :
            (name \in DOMAIN builtins /\ builtins[name] = EntryPoint)
                <=> settled[name] = "install")
    /\ [][/\ last'.op = "install" =>
                /\ last'.status = "returned"
                /\ last'.name \in DOMAIN builtins'
                /\ builtins'[last'.name] = EntryPoint
                /\ \A other \in Names \ {last'.name} :
                       /\ (other \in DOMAIN builtins') = (other \in DOMAIN builtins)
                       /\ other \in DOMAIN builtins =>
                              builtins'[other] = builtins[other]
          /\ last'.op = "uninstall" =>
                IF last'.name \notin DOMAIN builtins
                THEN /\ last'.status = "raised"
                     /\ last'.exc = "AttributeError"
                     /\ builtins' = builtins
                ELSE /\ last'.status = "returned"
                     /\ last'.name \notin DOMAIN builtins'
      ]_vars

\* install() has overwritten the binding of a builtin, and uninstall() of
\* a name that is not bound has just failed
C17_Witness ==
    /\ last.op = "uninstall" /\ last.status = "raised"
    /\ last.exc = "AttributeError"
    /\ settled[last.name] = "uninstall"
    /\ "len" \in DOMAIN builtins /\ builtins["len"] = EntryPoint

\* the number of physical lines of a text: one more than its line breaks,
\* a line break at the very end not counted
PhysicalLines(s) ==
    IF s = <<>> THEN 0
    ELSE Cardinality({i \in 1..(Len(s) - 1) : s[i] = NL}) + 1

\* the length of the first physical line of a text
FirstLineLength(s) ==
    Min({i - 1 : i \in {k \in 1..Len(s) : s[k] = NL}} \cup {Len(s)})

\* the pairs of the most recent report joined on the pair delimiter
JoinedPairs ==
    Join(pairDelimiter,
         [i \in 1..Len(last.pairs) |->
            RenderedPair(last.pairs[i].arg, TextsOf(last.pairs)[i])])

\* prefix + context + context delimiter + joined pairs
CandidateLine ==
    call_or_value(prefix) \o ContextOf(last.site)
    \o (IF ContextOf(last.site) # <<>> THEN context_delimiter ELSE <<>>)
    \o JoinedPairs

\* C18: a report with one or more arguments is wrapped exactly when the
\* joined pairs span more than one physical line or the first physical
\* line of prefix + context + context delimiter + joined pairs is longer
\* than the wrap width; a report that is not wrapped is that line.
C18_WrapDecision ==
    BuiltReport =>
        /\ (last.layout \in {"wrapped", "wrapped_context"})
               <=> \/ PhysicalLines(JoinedPairs) > 1
                   \/ FirstLineLength(CandidateLine) > lineWrapWidth
        /\ last.layout = "single" => last.report = CandidateLine

\* a report of exactly the wrap width, not wrapped
C18_Witness ==
    /\ BuiltReport /\ last.op = "call" /\ last.layout = "single"
    /\ Len(last.report) = lineWrapWidth

\* a report wrapped for its length alone, one character over the width
WrappedOneOver ==
    /\ BuiltReport /\ last.layout = "wrapped"
    /\ PhysicalLines(JoinedPairs) = 1
    /\ FirstLineLength(CandidateLine) = lineWrapWidth + 1

\* the prefix the pair blocks of a wrapped report are laid out with
BlockPrefix ==
    IF last.layout = "wrapped_context"
    THEN Spaces(Len(call_or_value(prefix))) ELSE <<>>

\* a text that begins and ends with the same quote character
QuotedText(value) ==
    /\ value # <<>>
    /\ value[1] \in {"'", "\""}
    /\ value[Len(value)] = value[1]

\* C19: every pair block of a wrapped report, format_pair(prefix, exprText,
\* valueText), is the lines of exprText laid out by indented_lines(prefix, .)
\* but the last, then the value lines: the first after the value prefix
\* "<last laid-out line of exprText>: ", every later one after len(value
\* prefix) spaces, and one space more when valueText begins and ends with
\* the same quote character.
C19_FormatPairLayout ==
    (BuiltReport /\ last.layout \in {"wrapped", "wrapped_context"}) =>
        \A i \in 1..Len(last.pairs) :
            LET arg    == last.pairs[i].arg
                value  == TextsOf(last.pairs)[i]
                elines == indented_lines(BlockPrefix, arg)
                vp     == elines[Len(elines)] \o <<":", " ">>
                vlines == SplitLines(value)
                extra  == IF QuotedText(value) THEN 1 ELSE 0
            IN  SplitLines(format_pair(BlockPrefix, arg, value)) =
                    SubSeq(elines, 1, Len(elines) - 1)
                    \o [j \in 1..Len(vlines) |->
                          IF j = 1 THEN vp \o vlines[1]
                          ELSE Spaces(Len(vp) + extra) \o vlines[j]]

\* a wrapped report with context holds a pair whose value is a quoted text
\* of two lines
C19_Witness ==
    /\ BuiltReport /\ last.layout = "wrapped_context"
    /\ call_or_value(prefix) # <<>>
    /\ \E i \in 1..Len(last.pairs) :
           /\ QuotedText(TextsOf(last.pairs)[i])
           /\ Len(SplitLines(TextsOf(last.pairs)[i])) = 2

\* a wrapped report holds a pair whose value has two lines and is no
\* quoted text, and one whose expression text has two lines
UnquotedTwoLines ==
    /\ BuiltReport /\ last.layout \in {"wrapped", "wrapped_context"}
    /\ \E i \in 1..Len(last.pairs) :
           /\ ~QuotedText(TextsOf(last.pairs)[i])
           /\ Len(SplitLines(TextsOf(last.pairs)[i])) = 2

ExpressionTwoLines ==
    /\ BuiltReport /\ last.layout \in {"wrapped", "wrapped_context"}
    /\ \E i \in 1..Len(last.pairs) : Len(SplitLines(last.pairs[i].arg)) = 2

====
